---- MODULE Spec2Model ----
(***************************************************************************)
(* RemoteShell (origamizyt/RemoteShell): the secure session protocol of    *)
(* ShellClient (client.py, driven by rshell.py) and ShellServer            *)
(* (server.py, with the Executor of executor.py), the message protection   *)
(* of SecurityManager (security.py) and the framing of SocketWrapper       *)
(* (network.py).                                                           *)
(*                                                                         *)
(* Two specifications:                                                     *)
(*   Spec        the session protocol.  A frame is one atomic message: the *)
(*               stream is taken to deliver every frame whole (the length  *)
(*               framing itself is the subject of SpecFraming).  An        *)
(*               adversary may alter frames in flight after the handshake. *)
(*   SpecFraming SocketWrapper.send / SocketWrapper.recv over a byte       *)
(*               stream that writes and delivers in arbitrary chunks.      *)
(*                                                                         *)
(* Each action is one whole handler: everything a side does from the       *)
(* moment a blocking call (accept, recv) returns until it blocks again.    *)
(***************************************************************************)
EXTENDS Integers, Sequences, FiniteSets, TLC

(* ------------------------------ bounds -------------------------------- *)
\* connections the clients make, one after the other
MaxConns == 2
\* frames the adversary alters, in total
MaxAlter == 1
\* frames of a connection the wire log keeps (the handshake and what follows)
MaxLog == 3
\* longest payload of the framing specification, in bytes
MaxPayload == 2
\* longest payload of the protection specification, in bytes (one more
\* than the cipher's block size)
MaxPlain == 17

(* ------------------------- program constants -------------------------- *)
\* struct.pack('>I', ...): the length header is 4 bytes
HeaderSize == 4

\* SecurityMode as the code spells it: '' is PLAINTEXT
PLAINTEXT == ""
SIGNED == "signature"
ENCRYPTED == "encrypt"
Modes == {PLAINTEXT, SIGNED, ENCRYPTED}

\* SecurityManager._remoteKey = None
NoKey == 0

\* config.get('security.rsaKeySize', 1024): the default RSA_KEY_SIZE, in bits
DefaultKeySize == 1024
\* RSA.generate(1024) in SecurityManager.__init__: the size of every key
GeneratedKeySize == 1024
\* config.get('security.aesKeySize', 16)
AesKeySize == 16
\* AES.block_size
BlockSize == 16

(* ------------------------------ texts --------------------------------- *)
\* Statements typed at the rshell prompt (already stripped by rshell.py:30).
Stmts ==
  {"1+1", "1/0", "input()", "input()+input()", "exit()",
   "#:mode.encrypt", "#: MODE.Signature", "#:mode", "#:help", "#:exit", "#:nope"}

\* Lines typed in answer to an input request (rshell.py:42, sent as typed).
Lines == {"a", "", "#:mode.encrypt", "#:mode.signature"}

Texts == Stmts \cup Lines

\* code.startswith('#:')
StartsWithPrefix(s) ==
  s \in {"#:mode.encrypt", "#: MODE.Signature", "#:mode", "#:help", "#:exit",
         "#:nope", "#:mode.signature"}

\* code[2:]
DropPrefix(s) ==
  CASE s = "#:mode.encrypt"    -> "mode.encrypt"
    [] s = "#:mode.signature"  -> "mode.signature"
    [] s = "#: MODE.Signature" -> " MODE.Signature"
    [] s = "#:mode"            -> "mode"
    [] s = "#:help"            -> "help"
    [] s = "#:exit"            -> "exit"
    [] s = "#:nope"            -> "nope"
    [] OTHER                   -> s

\* str.strip()
Strip(s) == IF s = " MODE.Signature" THEN "MODE.Signature" ELSE s

\* str.lower()
Lower(s) ==
  CASE s = "MODE.Signature"  -> "mode.signature"
    [] s = " MODE.Signature" -> " mode.signature"
    [] OTHER                 -> s

(* ----------------------------- outcomes ------------------------------- *)
\* ExecutionResult: success, data, error, stdout.  error is the class of
\* the packed exception ("" for None); data is a tuple: <<>> for None,
\* <<"RequireInput">> for the marker, <<"val", ...>> for a value.
Outcome(success, data, error, stdout) ==
  [success |-> success, data |-> data, error |-> error, stdout |-> stdout]

NoOutcome == Outcome(FALSE, <<>>, "", "")
DataNone == <<>>
DataRequireInput == <<"RequireInput">>

\* ExecutionResult(False, None, InvalidSignature(), '')
InvalidSignatureOutcome == Outcome(FALSE, DataNone, "InvalidSignature", "")

\* ExecutionResult(True, RequireInput(), None, prompt)
RequireInputOutcome == Outcome(TRUE, DataRequireInput, "", "")

\* the failure of a statement whose evaluation raised the exception e
FailureOutcome(e) == Outcome(FALSE, DataNone, e, "")

(* --------------------------- frame payloads --------------------------- *)
\* What a frame carries before protection: an exported public key, a text
\* (statement or input line), a packed ExecutionResult, or bytes that are
\* none of these (what decryption of an altered ciphertext may yield).
KeyBody(k) == [t |-> "key", k |-> k, s |-> "", o |-> NoOutcome]
TextBody(s) == [t |-> "text", k |-> NoKey, s |-> s, o |-> NoOutcome]
\* ExecutionResult.pack
Pack(o) == [t |-> "out", k |-> NoKey, s |-> "", o |-> o]
GarbageBody == [t |-> "garbage", k |-> NoKey, s |-> "", o |-> NoOutcome]

(* -------------------------- message protection ------------------------ *)
\* An envelope: env is the protection applied, key the signer's key (SIGNED)
\* or the recipient's public key (ENCRYPTED), alt whether the bytes were
\* altered in flight.
Frame(env, key, body) == [env |-> env, key |-> key, body |-> body, alt |-> FALSE]

\* ShellClient._send / ShellServer._send: the envelope of data under mode.
Protect(mode, own, remote, body) ==
  IF mode = ENCRYPTED THEN Frame(ENCRYPTED, remote, body)
  ELSE IF mode = SIGNED THEN Frame(SIGNED, own, body)
  ELSE Frame(PLAINTEXT, NoKey, body)

\* SecurityManager.encrypt raises MissingRemoteKey without a remote key
\* (SecurityManager.sign needs the private key only).
ProtectRaises(mode, remote) == mode = ENCRYPTED /\ remote = NoKey

\* SecurityManager.verify: False unless the frame is signature+data signed
\* by the holder of the remote key and unaltered.
Verify(remote, f) == f.env = SIGNED /\ f.key = remote /\ ~f.alt

\* What decrypting an altered ciphertext can give: the key unwrap fails
\* (ValueError of PKCS1_OAEP), the padding is invalid (InvalidPadding), or
\* the padding happens to be valid and other bytes come out: bytes that are
\* no text at all ("garbage") or, CBC being malleable, any chosen text.
AlteredFaults == {"ValueError", "InvalidPadding"}
AlteredResults == AlteredFaults \cup {"garbage"} \cup {"#:mode.signature", "1+1"}

\* SecurityManager.decrypt of frame f by the owner of key own; pick is the
\* outcome chosen for an altered ciphertext.
\* Result: st = "ok" with the plaintext, or st = "raise" with the exception.
Decrypt(own, f, pick) ==
  IF f.env = ENCRYPTED /\ f.key = own
  THEN IF ~f.alt THEN [st |-> "ok", body |-> f.body, err |-> ""]
       ELSE IF pick \in AlteredFaults
            THEN [st |-> "raise", body |-> GarbageBody, err |-> pick]
            ELSE IF pick = "garbage"
                 THEN [st |-> "ok", body |-> GarbageBody, err |-> ""]
                 ELSE [st |-> "ok", body |-> TextBody(pick), err |-> ""]
  ELSE [st |-> "raise", body |-> GarbageBody, err |-> "ValueError"]

\* The results decryption may give for frame f (one where nothing of the
\* frame was altered or no decryption takes place).
Picks(mode, own, f) ==
  IF mode = ENCRYPTED /\ f.env = ENCRYPTED /\ f.key = own /\ f.alt
  THEN AlteredResults ELSE {"garbage"}

\* ShellClient._recv / ShellServer._recv up to the point where the two
\* differ: unwrap frame f under mode.
\*   st = "ok"     the payload was recovered (body)
\*   st = "badsig" verify returned False
\*   st = "raise"  an exception left the security manager (err)
Unwrap(mode, own, remote, f, pick) ==
  IF mode = ENCRYPTED THEN Decrypt(own, f, pick)
  ELSE IF mode = SIGNED
  THEN IF remote = NoKey
       THEN [st |-> "raise", body |-> GarbageBody, err |-> "MissingRemoteKey"]
       ELSE IF Verify(remote, f)
            THEN [st |-> "ok", body |-> f.body, err |-> ""]
            ELSE [st |-> "badsig", body |-> GarbageBody, err |-> ""]
  ELSE [st |-> "ok",
        body |-> IF f.env = PLAINTEXT /\ ~f.alt THEN f.body ELSE GarbageBody,
        err |-> ""]

(* ------------------------------- state -------------------------------- *)
VARIABLES
  \* the client program (rshell.py driving one ShellClient per connection)
  cn,          \* connections made so far
  cpc,         \* "new", "connecting" (in connect, blocked in recv), "ready"
               \* (at the prompt), "executing" (in execute, blocked in
               \* recv), "closed"
  cmode,       \* ShellClient._mode
  ckey,        \* the client's SecurityManager keypair (its public key)
  cremote,     \* the client's SecurityManager._remoteKey
  cexp,        \* what rshell.py sends next: "stmt" (prompt) or "line"
  cres,        \* what the last execute() gave its caller
  sockC,       \* the client's socket: "none", "open", "closed"
  \* the server (ShellServer.serve)
  spc,         \* "accept", "recv" (_main, blocked in _recv), "input"
               \* (requireInput, blocked in _recv), "stopped" (serve
               \* returned), "crashed" (an exception left serve)
  smode,       \* ShellServer._mode
  skey,        \* the server's SecurityManager keypair of this session
  sremote,     \* the server's SecurityManager._remoteKey
  handshaken,  \* ShellServer._handshaken
  aborted,     \* ShellServer._aborted
  siter,       \* iterations of the serve loop begun
  need,        \* input requests the running statement still has to make
  got,         \* the lines the running statement has read
  serr,        \* the exception that left serve ("" while it runs)
  sockS,       \* ShellServer._client: "none" (not accepted), "open", "closed"
  \* the connection
  c2s, s2c,    \* frames in flight, client to server and server to client
  nalt,        \* frames altered so far
  \* history
  log,         \* the first MaxLog frames sent on this connection
  sev,         \* what the server's last step did, kept until the client
               \* begins its next exchange (op "idle" from then on)
  cev,         \* what the client's last step did
  xch,         \* the execute() exchange in progress, as it began
  sw,          \* the last mode switch command each side processed
  \* SpecFraming (network.py)
  fpay,        \* the payload given to send
  fsent,       \* send was called
  fall,        \* socket.send wrote every byte it was given
  fwire,       \* bytes written, not yet delivered to the receiver
  fbuf,        \* bytes delivered to the receiver's socket, not yet read
  feof,        \* the sender closed its socket
  fpc,         \* recv: "head", "body", "done", "exit" (ServerExit),
               \* "error" (struct.error)
  flen,        \* the length recv unpacked from the header
  fret,        \* what recv returned
  \* SpecProtect (security.py under _send and _recv)
  pcfg,        \* the configured RSA_KEY_SIZE
  pmode,       \* the mode of sender and receiver
  pplain,      \* the payload given to _send
  penv,        \* the bytes _send hands to the socket
  ppc,         \* "new", "sent", "done"
  pret,        \* what the receiver's _recv gave
  \* SpecExecutor (the one Executor of a ShellServer, over its connections)
  escope,      \* Executor._scope: the names the statements have bound
  estdout,     \* RuntimeStdout._buffer
  estdin,      \* RuntimeStdin._buffer
  econn,       \* connections serve has accepted
  epc,         \* "accept", "recv" (_main, blocked in _recv), "input"
               \* (requireInput, blocked in _recv), "crashed"
  estmt,       \* the statement Executor.execute is running ("" if none)
  eobs         \* the first thing this connection's client was sent

cvars == <<cn, cpc, cmode, ckey, cremote, cexp, cres, sockC>>
svars == <<spc, smode, skey, sremote, handshaken, aborted, siter, need, got,
           serr, sockS>>
nvars == <<c2s, s2c, nalt>>
hvars == <<log, sev, cev, xch, sw>>
fvars == <<fpay, fsent, fall, fwire, fbuf, feof, fpc, flen, fret>>
pvars == <<pcfg, pmode, pplain, penv, ppc, pret>>
evars == <<escope, estdout, estdin, econn, epc, estmt, eobs>>
vars == <<cvars, svars, nvars, hvars, fvars, pvars, evars>>

\* RSA.generate: every SecurityManager() gets a keypair of its own.
\* The server makes one per iteration of the serve loop, the client one
\* per ShellClient.
ServerKey(i) == 2 * i
ClientKey(n) == 2 * n + 1

NoFrame == [env |-> "none", key |-> NoKey, body |-> GarbageBody, alt |-> FALSE]

NoResult == [kind |-> "none", o |-> NoOutcome, err |-> ""]
Returned(o) == [kind |-> "outcome", o |-> o, err |-> ""]
Raised(e) == [kind |-> "raise", o |-> NoOutcome, err |-> e]

\* The peer's end of the connection is gone: closed by close(), or the
\* process ended (serve returned or was left by an exception).
ServerGone == sockS = "closed" \/ spc \in {"stopped", "crashed"}
ClientGone == sockC = "closed"

\* The server step before the one being recorded.
LastOp == IF sev.op = "idle" THEN sev.prev ELSE sev.op

\* The record of the server's last step once the client has begun another
\* exchange: only the kind of that step is kept (prev).
IdleEvent ==
  [op |-> "idle", f |-> NoFrame, spc0 |-> "idle", mode0 |-> PLAINTEXT,
   hs0 |-> FALSE, remote0 |-> NoKey, key0 |-> NoKey, out |-> <<>>,
   invoked |-> FALSE, exc |-> "", fault |-> "", text |-> "",
   spc1 |-> "idle", sock1 |-> "none", prev |-> LastOp]

LogEntry(dir, f) == [dir |-> dir, env |-> f.env, t |-> f.body.t]
RECURSIVE LogAdd(_, _, _)
LogAdd(l, dir, fs) ==
  IF fs = <<>> \/ Len(l) >= MaxLog THEN l
  ELSE LogAdd(Append(l, LogEntry(dir, Head(fs))), dir, Tail(fs))

(* ------------------------------ client -------------------------------- *)
\* ClientMetacommand comparing with a misspelt command name.
ClientMetacommandTypo(mode, cmd) ==
  LET c == Lower(Strip(cmd)) IN
  IF c = "mode.encryption" THEN ENCRYPTED
  ELSE IF c = "mode.signature" THEN SIGNED
  ELSE mode

\* ShellClient.metacommand: the mode after the control command cmd, given
\* in mode.
ClientMetacommand(mode, cmd) ==
  LET c == Lower(Strip(cmd)) IN
  IF c = "mode.encrypt" THEN ENCRYPTED
  ELSE IF c = "mode.signature" THEN SIGNED
  ELSE mode

\* ShellClient.execute, the part after _send: the client's next mode.
ClientModeAfter(mode, text) ==
  IF StartsWithPrefix(text) THEN ClientMetacommand(mode, DropPrefix(text))
  ELSE mode

\* ShellClient._recv followed by ExecutionResult.unpack: what execute()
\* gives its caller for frame f.
ClientReceive(mode, own, remote, f, pick) ==
  LET u == Unwrap(mode, own, remote, f, pick) IN
  IF u.st = "raise" THEN Raised(u.err)
  ELSE IF u.st = "badsig" THEN Returned(InvalidSignatureOutcome)
  ELSE IF u.body.t = "out" THEN Returned(u.body.o)
  ELSE Raised("UnpicklingError")

\* rshell.py:39-56: an input line is sent next exactly when the result is
\* a success whose data is the RequireInput marker.
DriverExpects(res) ==
  IF res.kind = "outcome" /\ res.o.success /\ res.o.data = DataRequireInput
  THEN "line" ELSE "stmt"

\* The control commands that switch the mode, as the protocol names them
\* (the prefix, then the name up to case and surrounding blanks).
SwitchToEncrypted == {"#:mode.encrypt"}
SwitchToSigned == {"#: MODE.Signature", "#:mode.signature"}
SwitchAfter(old, text) ==
  IF text \in SwitchToEncrypted THEN "enc"
  ELSE IF text \in SwitchToSigned THEN "sig"
  ELSE old

\* The statement protected under the mode it switches to.
ClientSendModeAfter(mode, text) == ClientModeAfter(mode, text)

\* ShellClient.execute, line 41: the mode under which the statement is
\* sent is the mode in force before the statement is looked at.
ClientSendMode(mode, text) == mode

\* The record of a client step: the frame sent or read (f), the mode the
\* step began in, and the exception the security manager raised in _recv.
ClientEvent(op, f, mode0, fault) ==
  [op |-> op, f |-> f, mode0 |-> mode0, fault |-> fault]

\* An exchange is a top-level one when it begins with the server waiting
\* in _main for a statement, nothing in flight, and rshell.py at its prompt.
TopLevel == spc = "recv" /\ c2s = <<>> /\ s2c = <<>> /\ cexp = "stmt"

\* ShellClient.__init__ and connect, up to the blocking recv.
CConnect ==
  /\ cpc \in {"new", "closed"}
  /\ spc = "accept"
  /\ cn < MaxConns
  /\ LET k == ClientKey(cn + 1)
         f == Protect(PLAINTEXT, k, NoKey, KeyBody(k))
     IN /\ cn' = cn + 1
        /\ ckey' = k
        /\ cremote' = NoKey
        /\ cmode' = PLAINTEXT
        /\ c2s' = <<f>>
        /\ s2c' = <<>>
        /\ log' = LogAdd(<<>>, "c2s", <<f>>)
        /\ cev' = ClientEvent("connect", f, PLAINTEXT, "")
  /\ cpc' = "connecting"
  /\ cexp' = "stmt"
  /\ cres' = NoResult
  /\ sockC' = "open"
  /\ sockS' = "none"
  /\ xch' = [eq |-> FALSE, top |-> FALSE, alt |-> FALSE, clean |-> TRUE,
             text |-> ""]
  /\ sw' = [sw EXCEPT !.c = "none"]
  /\ UNCHANGED <<spc, smode, skey, sremote, handshaken, aborted, siter, need,
                 got, serr, nalt, sev, fvars, pvars, evars>>

\* connect, after recv returned: load the reply, mode = 'signature'.
CConnectRecv ==
  /\ cpc = "connecting"
  /\ s2c # <<>>
  /\ LET f == Head(s2c)
         u == Unwrap(PLAINTEXT, ckey, cremote, f, "garbage")
     IN /\ s2c' = Tail(s2c)
        /\ cev' = ClientEvent("connected", f, cmode, "")
        /\ IF u.body.t = "key"
           THEN /\ cremote' = u.body.k
                /\ cmode' = SIGNED
                /\ cpc' = "ready"
                /\ UNCHANGED <<cres, sockC>>
           ELSE \* RSA.import_key raises ValueError; rshell.py ends
                /\ cres' = Raised("ValueError")
                /\ cpc' = "closed"
                /\ sockC' = "closed"
                /\ UNCHANGED <<cremote, cmode>>
  /\ UNCHANGED <<cn, ckey, cexp, svars, c2s, nalt, log, sev, xch, sw, fvars, pvars, evars>>

\* ShellClient.execute up to the blocking recv: _send, then metacommand.
CExecute(text) ==
  /\ cpc = "ready"
  /\ text \in (IF cexp = "line" THEN Lines ELSE Stmts)
  /\ LET f == Protect(ClientSendMode(cmode, text), ckey, cremote, TextBody(text)) IN
     IF ProtectRaises(ClientSendMode(cmode, text), cremote)
     THEN /\ cres' = Raised("MissingRemoteKey")
          /\ cpc' = "closed"
          /\ sockC' = "closed"
          /\ cev' = ClientEvent("raise", NoFrame, cmode, "MissingRemoteKey")
          /\ UNCHANGED <<cmode, c2s, log, sev, xch, sw>>
     ELSE /\ c2s' = Append(c2s, f)
          /\ log' = LogAdd(log, "c2s", <<f>>)
          /\ cmode' = ClientModeAfter(cmode, text)
          /\ cpc' = "executing"
          /\ cres' = NoResult
          /\ cev' = ClientEvent("send", f, cmode, "")
          /\ sev' = IdleEvent
          /\ xch' = [eq |-> cmode = smode,
                     top |-> TopLevel,
                     alt |-> FALSE,
                     clean |-> xch.clean /\ TopLevel,
                     text |-> text]
          /\ sw' = [sw EXCEPT !.c = IF StartsWithPrefix(text)
                                    THEN SwitchAfter(sw.c, text) ELSE sw.c]
          /\ UNCHANGED sockC
  /\ UNCHANGED <<cn, ckey, cremote, cexp, svars, s2c, nalt, fvars, pvars, evars>>

\* ShellClient.execute after recv returned: _recv, unpack, and what
\* rshell.py does with the result (an exception ends rshell.py, whose
\* finally clause closes the client).
CExecuteRecv(pick) ==
  /\ cpc = "executing"
  /\ s2c # <<>>
  /\ LET f == Head(s2c)
         res == ClientReceive(cmode, ckey, cremote, f, pick)
     IN /\ pick \in Picks(cmode, ckey, f)
        /\ s2c' = Tail(s2c)
        /\ cres' = res
        /\ cev' = ClientEvent("result", f, cmode,
                              Unwrap(cmode, ckey, cremote, f, pick).err)
        /\ IF res.kind = "raise"
           THEN cpc' = "closed" /\ sockC' = "closed" /\ UNCHANGED cexp
           ELSE cpc' = "ready" /\ cexp' = DriverExpects(res) /\ UNCHANGED sockC
  /\ UNCHANGED <<cn, cmode, ckey, cremote, svars, c2s, nalt, log, sev, xch,
                 sw, fvars, pvars, evars>>

\* SocketWrapper.recv raises ServerExit in connect or execute: the server's
\* end is gone and nothing is left to read.
CRecvClosed ==
  /\ cpc \in {"connecting", "executing"}
  /\ s2c = <<>>
  /\ ServerGone
  /\ cres' = Raised("ServerExit")
  /\ cpc' = "closed"
  /\ sockC' = "closed"
  /\ cev' = ClientEvent("exit", NoFrame, cmode, "")
  /\ UNCHANGED <<cn, cmode, ckey, cremote, cexp, svars, nvars, log, sev, xch,
                 sw, fvars, pvars, evars>>

\* rshell.py:57-60: KeyboardInterrupt at the prompt, then c.close().
CClose ==
  /\ cpc = "ready"
  /\ cpc' = "closed"
  /\ sockC' = "closed"
  /\ cev' = ClientEvent("close", NoFrame, cmode, "")
  /\ UNCHANGED <<cn, cmode, ckey, cremote, cexp, cres, svars, nvars, log,
                 sev, xch, sw, fvars, pvars, evars>>

(* ------------------------------ server -------------------------------- *)
\* The statements of the model as the interpreter runs them (eval, then
\* exec): how many lines the statement reads with input().
InputRequests(text) ==
  IF text = "input()" THEN 1
  ELSE IF text = "input()+input()" THEN 2
  ELSE 0

\* Executor.metacommand failing on a command it does not know.
ServerMetacommandUnknownFails(cmd, mode) ==
  LET c == Lower(Strip(cmd)) IN
  IF c = "mode.encrypt"
  THEN [kind |-> "outcome", mode |-> ENCRYPTED, n |-> 0,
        o |-> Outcome(TRUE, DataNone, "", "")]
  ELSE IF c = "mode.signature"
  THEN [kind |-> "outcome", mode |-> SIGNED, n |-> 0,
        o |-> Outcome(TRUE, DataNone, "", "Warning: Swiching to insecure context.")]
  ELSE IF c = "mode"
  THEN [kind |-> "outcome", mode |-> mode, n |-> 0,
        o |-> Outcome(TRUE, DataNone, "", mode)]
  ELSE IF c = "help"
  THEN [kind |-> "outcome", mode |-> mode, n |-> 0,
        o |-> Outcome(TRUE, DataNone, "", "HELPMSG")]
  ELSE IF c = "exit"
  THEN [kind |-> "abort", mode |-> mode, n |-> 0, o |-> NoOutcome]
  ELSE [kind |-> "outcome", mode |-> mode, n |-> 0,
        o |-> FailureOutcome("ValueError")]

\* Executor.metacommand: what the control command cmd does in mode.
\*   kind "outcome": the ExecutionResult returned (o), and the mode after
\*   kind "abort":   ShellServer.abort was called (no return)
ServerMetacommand(cmd, mode) ==
  LET c == Lower(Strip(cmd)) IN
  IF c = "mode.encrypt"
  THEN [kind |-> "outcome", mode |-> ENCRYPTED, n |-> 0,
        o |-> Outcome(TRUE, DataNone, "", "")]
  ELSE IF c = "mode.signature"
  THEN [kind |-> "outcome", mode |-> SIGNED, n |-> 0,
        o |-> Outcome(TRUE, DataNone, "", "Warning: Swiching to insecure context.")]
  ELSE IF c = "mode"
  THEN [kind |-> "outcome", mode |-> mode, n |-> 0,
        o |-> Outcome(TRUE, DataNone, "", mode)]
  ELSE IF c = "help"
  THEN [kind |-> "outcome", mode |-> mode, n |-> 0,
        o |-> Outcome(TRUE, DataNone, "", "HELPMSG")]
  ELSE IF c = "exit"
  THEN [kind |-> "abort", mode |-> mode, n |-> 0, o |-> NoOutcome]
  ELSE [kind |-> "outcome", mode |-> mode, n |-> 0,
        o |-> Outcome(TRUE, DataNone, "", "No metacommand named")]

\* Executor.execute of the bytes body received at the top level, in mode.
\*   kind "outcome": an ExecutionResult is returned
\*   kind "input":   the statement called input(): n requests to make
\*   kind "abort":   the terminate command
\*   kind "sysexit": the statement raised SystemExit
\*   kind "raise":   statement.decode() raised (UnicodeDecodeError)
ServerExecute(body, mode) ==
  IF body.t # "text"
  THEN [kind |-> "raise", mode |-> mode, n |-> 0, o |-> NoOutcome]
  ELSE IF StartsWithPrefix(body.s)
  THEN ServerMetacommand(DropPrefix(body.s), mode)
  ELSE IF InputRequests(body.s) > 0
  THEN [kind |-> "input", mode |-> mode, n |-> InputRequests(body.s),
        o |-> NoOutcome]
  ELSE IF body.s = "exit()"
  THEN [kind |-> "sysexit", mode |-> mode, n |-> 0, o |-> NoOutcome]
  ELSE IF body.s = "1+1"
  THEN [kind |-> "outcome", mode |-> mode, n |-> 0,
        o |-> Outcome(TRUE, <<"val", "2">>, "", "")]
  ELSE IF body.s = "1/0"
  THEN [kind |-> "outcome", mode |-> mode, n |-> 0,
        o |-> FailureOutcome("ZeroDivisionError")]
  ELSE IF body.s = ""
  THEN [kind |-> "outcome", mode |-> mode, n |-> 0,
        o |-> Outcome(TRUE, DataNone, "", "")]
  ELSE [kind |-> "outcome", mode |-> mode, n |-> 0,
        o |-> FailureOutcome("NameError")]

\* serve keeping the mode of the session that ended.
InitialModeKept == smode

\* ShellServer.serve, line 32: the mode every session starts in.
InitialMode == PLAINTEXT

\* serve going on to accept whatever ended the session.
AfterSessionAccept(ab) == "accept"

\* ShellServer.serve, the loop condition after _main returned: the server
\* accepts again unless abort() was called.
AfterSession(ab) == IF ab THEN "stopped" ELSE "accept"

\* _main catching SystemExit only.
MainCatchesSystemExit(e) == e = "SystemExit"

\* ShellServer._main, the except clause: the exceptions that end the
\* session by closing the connection; any other leaves serve.
MainCatches(e) == e \in {"SystemExit", "ServerExit"}

\* Executor.execute, the except clauses around eval and exec: the
\* exceptions of a running statement that become a failure ExecutionResult.
ExecuteCatches(e) == e # "SystemExit"

\* What one step of the server decides; the server's fields as they are,
\* nothing sent.  exc: the exception that reaches _main; fault: the
\* exception the security manager raised inside _recv; text: the statement
\* given to the command processor.
Stay(op) ==
  [op |-> op, spc |-> spc, smode |-> smode, sremote |-> sremote,
   handshaken |-> handshaken, aborted |-> aborted, need |-> need,
   got |-> got, out |-> <<>>, exc |-> "", fault |-> "", invoked |-> FALSE,
   text |-> ""]

\* ShellServer._send of an ExecutionResult under mode m.
SendOutcome(m, o) == Protect(m, skey, sremote, Pack(o))

\* Handshake with the mode set before the reply is sent.
HandshakeModeFirst(body) ==
  IF body.t # "key"
  THEN [Stay("handshake") EXCEPT !.exc = "ValueError"]
  ELSE [Stay("handshake") EXCEPT
          !.sremote = body.k,
          !.out = <<Protect(SIGNED, skey, body.k, KeyBody(skey))>>,
          !.smode = SIGNED,
          !.handshaken = TRUE]

\* Handshake that answers without loading the client's key.
HandshakeKeyNotLoaded(body) ==
  IF body.t # "key"
  THEN [Stay("handshake") EXCEPT !.exc = "ValueError"]
  ELSE [Stay("handshake") EXCEPT
          !.out = <<Protect(smode, skey, body.k, KeyBody(skey))>>,
          !.smode = SIGNED,
          !.handshaken = TRUE]

\* ShellServer._handshake and the assignment that follows it in _main.
Handshake(body) ==
  IF body.t # "key"
  THEN [Stay("handshake") EXCEPT !.exc = "ValueError"]
  ELSE [Stay("handshake") EXCEPT
          !.sremote = body.k,
          !.out = <<Protect(smode, skey, body.k, KeyBody(skey))>>,
          !.smode = SIGNED,
          !.handshaken = TRUE]

\* An invalid signature treated like a closed connection.
OnInvalidSignatureExit == [Stay("badsig") EXCEPT !.exc = "ServerExit"]

\* ShellServer._recv, lines 71-73: the signature does not verify.
OnInvalidSignature ==
  [Stay("badsig") EXCEPT !.out = <<SendOutcome(smode, InvalidSignatureOutcome)>>]

\* ShellServer._main, lines 44-45: execute the statement, send the result.
MainExecute(body) ==
  LET e == ServerExecute(body, smode)
      r == [Stay("execute") EXCEPT !.invoked = TRUE, !.text = body.s]
  IN
  IF e.kind = "raise" THEN [r EXCEPT !.exc = "UnicodeDecodeError"]
  ELSE IF e.kind = "abort" THEN [r EXCEPT !.aborted = TRUE, !.exc = "ServerExit"]
  ELSE IF e.kind = "sysexit" THEN [r EXCEPT !.exc = "SystemExit"]
  ELSE IF e.kind = "input"
  THEN [r EXCEPT !.spc = "input", !.need = e.n - 1, !.got = <<>>,
                 !.out = <<SendOutcome(smode, RequireInputOutcome)>>]
  ELSE [r EXCEPT !.smode = e.mode, !.out = <<SendOutcome(e.mode, e.o)>>]

\* _main giving every frame to the executor, handshaken or not.
MainStepWithoutHandshake(f, pick) ==
  LET u == Unwrap(smode, skey, sremote, f, pick) IN
  IF u.st = "raise" THEN [Stay("recv") EXCEPT !.exc = u.err, !.fault = u.err]
  ELSE IF u.st = "badsig" THEN OnInvalidSignature
  ELSE MainExecute(u.body)

\* ShellServer._main: one iteration of the loop, for the frame f that
\* _recv read at the top level.
MainStep(f, pick) ==
  LET u == Unwrap(smode, skey, sremote, f, pick) IN
  IF u.st = "raise" THEN [Stay("recv") EXCEPT !.exc = u.err, !.fault = u.err]
  ELSE IF u.st = "badsig" THEN OnInvalidSignature
  ELSE IF ~handshaken THEN Handshake(u.body)
  ELSE MainExecute(u.body)

\* The statement that waits in input() goes on with what requireInput
\* gave it: the exception exc raised inside it, or the line.
\* first: what requireInput itself sent before returning.
Resume(op, first, exc, line) ==
  IF exc # ""
  THEN IF ExecuteCatches(exc)
       THEN [Stay(op) EXCEPT
               !.spc = "recv", !.need = 0, !.got = <<>>,
               !.out = first \o <<SendOutcome(smode, FailureOutcome(exc))>>]
       ELSE [Stay(op) EXCEPT !.out = first, !.exc = exc]
  ELSE IF need > 0
  THEN [Stay(op) EXCEPT
          !.need = need - 1, !.got = Append(got, line),
          !.out = first \o <<SendOutcome(smode, RequireInputOutcome)>>]
  ELSE [Stay(op) EXCEPT
          !.spc = "recv", !.need = 0, !.got = <<>>,
          !.out = first \o <<SendOutcome(smode,
                     Outcome(TRUE, <<"val">> \o Append(got, line), "", ""))>>]

\* requireInput giving the statement an empty line to read when the
\* signature of the nested frame does not verify.
InputStepBadSignatureAsLine(f, pick) ==
  LET u == Unwrap(smode, skey, sremote, f, pick) IN
  IF u.st = "raise"
  THEN [Resume("input", <<>>, u.err, "") EXCEPT !.fault = u.err]
  ELSE IF u.st = "badsig"
  THEN Resume("input-badsig", <<SendOutcome(smode, InvalidSignatureOutcome)>>,
              "", "")
  ELSE IF u.body.t # "text" THEN Resume("input", <<>>, "UnicodeDecodeError", "")
  ELSE IF u.body.s = "" THEN Resume("input", <<>>, "EOFError", "")
  ELSE Resume("input", <<>>, "", u.body.s)

\* ShellServer.requireInput after its _send, for the frame f that the
\* nested _recv read, and RuntimeStdin.readline / input() on what it
\* returned: input() raises EOFError on an empty line.
InputStep(f, pick) ==
  LET u == Unwrap(smode, skey, sremote, f, pick) IN
  IF u.st = "raise"
  THEN [Resume("input", <<>>, u.err, "") EXCEPT !.fault = u.err]
  ELSE IF u.st = "badsig"
  THEN Resume("input-badsig", <<SendOutcome(smode, InvalidSignatureOutcome)>>,
              "EOFError", "")
  ELSE IF u.body.t # "text" THEN Resume("input", <<>>, "UnicodeDecodeError", "")
  ELSE IF u.body.s = "" THEN Resume("input", <<>>, "EOFError", "")
  ELSE Resume("input", <<>>, "", u.body.s)

\* The record of a server step: the frame read (f), the state it began in
\* (spc0, mode0, hs0, remote0, key0), what it did, the state it ended in
\* (spc1, sock1), and the step before it (prev).
SessionEvent(r, f, spc1, sock1) ==
  [op |-> r.op, f |-> f, spc0 |-> spc, mode0 |-> smode, hs0 |-> handshaken,
   remote0 |-> sremote, key0 |-> skey, out |-> r.out, invoked |-> r.invoked,
   exc |-> r.exc, fault |-> r.fault, text |-> r.text, spc1 |-> spc1,
   sock1 |-> sock1, prev |-> LastOp]

\* The step r takes effect.  An exception that _main catches closes the
\* connection and returns to serve, which starts the next session or
\* returns; any other exception leaves serve.
Apply(r, f, delivered) ==
  /\ s2c' = IF delivered THEN s2c \o r.out ELSE s2c
  /\ log' = IF delivered THEN LogAdd(log, "s2c", r.out) ELSE log
  /\ aborted' = r.aborted
  /\ IF r.exc = ""
     THEN /\ spc' = r.spc
          /\ smode' = r.smode
          /\ sremote' = r.sremote
          /\ handshaken' = r.handshaken
          /\ need' = r.need
          /\ got' = r.got
          /\ sw' = IF r.op = "handshake" THEN [sw EXCEPT !.s = "none"]
                   ELSE IF r.op = "execute"
                   THEN [sw EXCEPT !.s = SwitchAfter(sw.s, r.text)]
                   ELSE sw
          /\ UNCHANGED <<skey, siter, serr, sockS>>
     ELSE IF MainCatches(r.exc)
     THEN /\ sockS' = "closed"
          /\ spc' = AfterSession(r.aborted)
          /\ need' = 0
          /\ got' = <<>>
          /\ IF AfterSession(r.aborted) = "accept"
             THEN /\ siter' = siter + 1
                  /\ skey' = ServerKey(siter + 1)
                  /\ sremote' = NoKey
                  /\ smode' = InitialMode
                  /\ handshaken' = FALSE
             ELSE UNCHANGED <<siter, skey, sremote, smode, handshaken>>
          /\ UNCHANGED <<serr, sw>>
     ELSE /\ spc' = "crashed"
          /\ serr' = r.exc
          /\ UNCHANGED <<smode, sremote, handshaken, need, got, skey, siter,
                         sockS, sw>>
  /\ sev' = SessionEvent(r, f, spc', sockS')

\* ShellServer.serve: accept returned.
SAccept ==
  /\ spc = "accept"
  /\ sockC # "none"
  /\ sockS = "none"
  /\ sockS' = "open"
  /\ spc' = "recv"
  /\ sev' = SessionEvent(Stay("accept"), NoFrame, "recv", "open")
  /\ UNCHANGED <<smode, skey, sremote, handshaken, aborted, siter, need, got,
                 serr, cvars, nvars, log, cev, xch, sw, fvars, pvars, evars>>

\* ShellServer._main: _recv returned a frame at the top level.
SRecv(pick) ==
  /\ spc = "recv"
  /\ c2s # <<>>
  /\ pick \in Picks(smode, skey, Head(c2s))
  /\ c2s' = Tail(c2s)
  /\ Apply(MainStep(Head(c2s), pick), Head(c2s), TRUE)
  /\ UNCHANGED <<cvars, nalt, cev, xch, fvars, pvars, evars>>

\* ShellServer.requireInput: the nested _recv returned a frame.
SInput(pick) ==
  /\ spc = "input"
  /\ c2s # <<>>
  /\ pick \in Picks(smode, skey, Head(c2s))
  /\ c2s' = Tail(c2s)
  /\ Apply(InputStep(Head(c2s), pick), Head(c2s), TRUE)
  /\ UNCHANGED <<cvars, nalt, cev, xch, fvars, pvars, evars>>

\* SocketWrapper.recv raised ServerExit at the top level: the client's end
\* is closed and nothing is left to read.
SRecvClosed ==
  /\ spc = "recv"
  /\ c2s = <<>>
  /\ ClientGone
  /\ Apply([Stay("closed") EXCEPT !.exc = "ServerExit"], NoFrame, FALSE)
  /\ UNCHANGED <<cvars, c2s, nalt, cev, xch, fvars, pvars, evars>>

\* SocketWrapper.recv raised ServerExit in the nested _recv of
\* requireInput, inside the running statement.  The failure result is sent
\* on a connection whose peer is gone: the send goes through (sendOk) or
\* raises BrokenPipeError.
SInputClosed(sendOk) ==
  /\ spc = "input"
  /\ c2s = <<>>
  /\ ClientGone
  /\ LET r == Resume("input-closed", <<>>, "ServerExit", "") IN
     Apply(IF sendOk \/ r.exc # "" THEN r ELSE [r EXCEPT !.exc = "BrokenPipeError"],
           NoFrame, FALSE)
  /\ UNCHANGED <<cvars, c2s, nalt, cev, xch, fvars, pvars, evars>>

(* ----------------------------- adversary ------------------------------ *)
\* A protected frame in flight is altered (the handshake frames, which no
\* key protects, are left as sent).
Alter(ch, i) ==
  /\ nalt < MaxAlter
  /\ nalt' = nalt + 1
  /\ xch' = [xch EXCEPT !.alt = TRUE, !.clean = FALSE]
  /\ IF ch = "c2s"
     THEN /\ i \in 1..Len(c2s)
          /\ c2s[i].env # PLAINTEXT /\ ~c2s[i].alt
          /\ c2s' = [c2s EXCEPT ![i].alt = TRUE]
          /\ UNCHANGED s2c
     ELSE /\ i \in 1..Len(s2c)
          /\ s2c[i].env # PLAINTEXT /\ ~s2c[i].alt
          /\ s2c' = [s2c EXCEPT ![i].alt = TRUE]
          /\ UNCHANGED c2s
  /\ UNCHANGED <<cvars, svars, log, sev, cev, sw, fvars, pvars, evars>>

(* ------------------------------ framing ------------------------------- *)
Bytes == {0, 1}

\* struct.pack('>I', n)
StructPack(n) ==
  <<(n \div 16777216) % 256, (n \div 65536) % 256, (n \div 256) % 256, n % 256>>

\* struct.unpack('>I', head)[0]
StructUnpack(h) == h[1] * 16777216 + h[2] * 65536 + h[3] * 256 + h[4]

Min(a, b) == IF a < b THEN a ELSE b
Take(s, n) == SubSeq(s, 1, Min(n, Len(s)))
Drop(s, n) == SubSeq(s, Min(n, Len(s)) + 1, Len(s))

Payloads == UNION {[1..n -> Bytes] : n \in 0..MaxPayload}

\* socket.recv(n) returns once bytes are there, or the peer has closed and
\* every byte written was read.
Readable == fbuf # <<>> \/ (feof /\ fwire = <<>>)

\* SocketWrapper.send: socket.send(head+data) writes the first k bytes and
\* returns k, which send does not look at.
FSend(k) ==
  /\ ~fsent /\ ~feof
  /\ k \in 1..(HeaderSize + Len(fpay))
  /\ fwire' = Take(StructPack(Len(fpay)) \o fpay, k)
  /\ fsent' = TRUE
  /\ fall' = (k = HeaderSize + Len(fpay))
  /\ UNCHANGED <<fpay, fbuf, feof, fpc, flen, fret, cvars, svars, nvars, hvars, pvars, evars>>

\* The stream delivers the next k bytes to the receiver.
FDeliver(k) ==
  /\ k \in 1..Len(fwire)
  /\ fbuf' = fbuf \o Take(fwire, k)
  /\ fwire' = Drop(fwire, k)
  /\ UNCHANGED <<fpay, fsent, fall, feof, fpc, flen, fret, cvars, svars, nvars,
                 hvars, pvars, evars>>

\* SocketWrapper.close on the sending side.
FClose ==
  /\ ~feof
  /\ feof' = TRUE
  /\ UNCHANGED <<fpay, fsent, fall, fwire, fbuf, fpc, flen, fret, cvars, svars,
                 nvars, hvars, pvars, evars>>

\* SocketWrapper.recv, lines 16-18: head = recv(4); ServerExit if empty;
\* struct.unpack raises struct.error on fewer than 4 bytes.
FRecvHead ==
  /\ fpc = "head"
  /\ Readable
  /\ LET head == Take(fbuf, HeaderSize) IN
     /\ fbuf' = Drop(fbuf, HeaderSize)
     /\ IF head = <<>> THEN fpc' = "exit" /\ UNCHANGED flen
        ELSE IF Len(head) < HeaderSize THEN fpc' = "error" /\ UNCHANGED flen
        ELSE fpc' = "body" /\ flen' = StructUnpack(head)
  /\ UNCHANGED <<fpay, fsent, fall, fwire, feof, fret, cvars, svars, nvars,
                 hvars, pvars, evars>>

\* SocketWrapper.recv, line 19: return recv(length), one read.
FRecvBody ==
  /\ fpc = "body"
  /\ flen = 0 \/ Readable
  /\ fret' = Take(fbuf, flen)
  /\ fbuf' = Drop(fbuf, flen)
  /\ fpc' = "done"
  /\ UNCHANGED <<fpay, fsent, fall, fwire, feof, flen, cvars, svars, nvars,
                 hvars, pvars, evars>>

(* ----------------------- protection, byte level ----------------------- *)
\* The bytes of an envelope.  A byte is a cell: a payload byte (c = "b",
\* its value in i), or the i-th byte of a signature (c = "sig": signer key
\* and signed data), of an RSA-OAEP ciphertext (c = "oaep": recipient key
\* and the wrapped ephemeral key in of), of an initial vector (c = "iv") or
\* of an AES-CBC ciphertext (c = "aes": ephemeral key in ek, the padded
\* plaintext in of).
Cell(c, key, of, ek, i) == [c |-> c, key |-> key, of |-> of, ek |-> ek, i |-> i]

\* bytes((b,) * n)
Repeat(b, n) == [i \in 1..n |-> b]

\* data as it travels unprotected, and back
PlainCells(data) == [i \in 1..Len(data) |-> Cell("b", NoKey, <<>>, <<>>, data[i])]
CellBytes(cells) == [i \in 1..Len(cells) |-> cells[i].i]

\* data[:-n] and data[-n:] as Python slices them
ButLast(data, n) == IF n = 0 THEN <<>> ELSE Take(data, Len(data) - Min(n, Len(data)))
Last(data, n) == IF n = 0 THEN data ELSE Drop(data, Len(data) - Min(n, Len(data)))

\* pad adding nothing to data that fills its last block.
padToBlock(data) ==
  LET missing == (BlockSize - (Len(data) % BlockSize)) % BlockSize
  IN data \o Repeat(missing, missing)

\* pad: PKCS-5 padding, always at least one byte.
pad(data) ==
  LET missing == BlockSize - (Len(data) % BlockSize)
  IN data \o Repeat(missing, missing)

\* unpad: the data without its padding, or InvalidPadding (IndexError on
\* data[-1] of empty data).
unpad(data) ==
  IF data = <<>> THEN [st |-> "raise", data |-> <<>>, err |-> "IndexError"]
  ELSE LET plen == data[Len(data)] IN
       IF Last(data, plen) # Repeat(plen, plen)
       THEN [st |-> "raise", data |-> <<>>, err |-> "InvalidPadding"]
       ELSE [st |-> "ok", data |-> ButLast(data, plen), err |-> ""]

\* RSA_CIPHER_SIZE = RSA_SIGNATURE_SIZE = RSA_KEY_SIZE // 8, for the
\* configured key size cfg
RSA_SIGNATURE_SIZE(cfg) == cfg \div 8
RSA_CIPHER_SIZE(cfg) == cfg \div 8

\* The configurations: the default key size and twice the default.
KeySizes == {DefaultKeySize, 2 * DefaultKeySize}

\* The byte length of the modulus of a generated key: the length of its
\* signatures and of its RSA-OAEP ciphertexts.
ModulusSize == GeneratedKeySize \div 8

\* random_key_iv: os.urandom(size), os.urandom(AES.block_size)
EphemeralKey == Repeat(0, AesKeySize)
InitialVector == [i \in 1..BlockSize |-> Cell("iv", NoKey, <<>>, <<>>, i)]

\* SecurityManager.sign with the private key of own
sign(own, data) == [i \in 1..ModulusSize |-> Cell("sig", own, data, <<>>, i)]

\* SecurityManager.verify with the remote public key: pkcs1_15 accepts the
\* signature of exactly this data by exactly this key, of modulus length.
verify(remote, data, signature) == signature = sign(remote, data)

\* AES.new(key, MODE_CBC, iv).encrypt(padded)
CbcEncrypt(key, padded) ==
  [i \in 1..Len(padded) |-> Cell("aes", NoKey, padded, key, i)]

\* encrypt (module level): ephemeral key, iv + ciphertext of pad(data)
encrypt(data) ==
  [key |-> EphemeralKey, data |-> InitialVector \o CbcEncrypt(EphemeralKey, pad(data))]

\* decrypt (module level).  Bytes that are no ciphertext under key are
\* outside the protection specification (the session specification draws
\* what they decrypt to from AlteredResults); they are refused here.
decrypt(key, data) ==
  LET ct == Drop(data, BlockSize) IN
  IF ct = <<>> THEN unpad(<<>>)
  ELSE IF ct = CbcEncrypt(key, ct[1].of) THEN unpad(ct[1].of)
  ELSE [st |-> "raise", data |-> <<>>, err |-> "ValueError"]

\* PKCS1_OAEP.new(remote).encrypt(m)
OaepEncrypt(remote, m) ==
  [i \in 1..ModulusSize |-> Cell("oaep", remote, m, <<>>, i)]

\* SecurityManager.encrypt for the holder of the remote public key
ManagerEncrypt(remote, data) ==
  LET e == encrypt(data) IN OaepEncrypt(remote, e.key) \o e.data

\* SecurityManager.decrypt with the private key of own, the receiver being
\* configured with key size cfg: PKCS1_OAEP raises ValueError on a
\* ciphertext that is not of modulus length or not made for this key.
ManagerDecrypt(cfg, own, data) ==
  LET ephemeral == Take(data, RSA_CIPHER_SIZE(cfg))
      rest == Drop(data, RSA_CIPHER_SIZE(cfg))
  IN IF Len(ephemeral) = ModulusSize
        /\ ephemeral = OaepEncrypt(own, ephemeral[1].of)
     THEN decrypt(ephemeral[1].of, rest)
     ELSE [st |-> "raise", data |-> <<>>, err |-> "ValueError"]

\* ShellClient._send / ShellServer._send, on bytes
SendBytes(mode, own, remote, data) ==
  IF mode = ENCRYPTED THEN ManagerEncrypt(remote, data)
  ELSE IF mode = SIGNED THEN sign(own, data) \o PlainCells(data)
  ELSE PlainCells(data)

\* ShellClient._recv / ShellServer._recv up to the point where the two
\* differ, on bytes, the receiver being configured with key size cfg.
RecvBytes(cfg, mode, own, remote, env) ==
  IF mode = ENCRYPTED THEN ManagerDecrypt(cfg, own, env)
  ELSE IF mode = SIGNED
  THEN LET signature == Take(env, RSA_SIGNATURE_SIZE(cfg))
           data == CellBytes(Drop(env, RSA_SIGNATURE_SIZE(cfg)))
       IN IF verify(remote, data, signature)
          THEN [st |-> "ok", data |-> data, err |-> ""]
          ELSE [st |-> "badsig", data |-> <<>>, err |-> ""]
  ELSE [st |-> "ok", data |-> CellBytes(env), err |-> ""]

\* The payloads of the protection specification: n equal bytes, of every
\* length up to MaxPlain; the byte values include those a padding ends in.
PlainBytes == {0, 1, BlockSize}
Plains == {Repeat(b, n) : b \in PlainBytes, n \in 0..MaxPlain}

NoReturn == [st |-> "none", data |-> <<>>, err |-> ""]

\* The sender (keypair ClientKey(1), remote key ServerKey(1)) calls _send.
PSend ==
  /\ ppc = "new"
  /\ penv' = SendBytes(pmode, ClientKey(1), ServerKey(1), pplain)
  /\ ppc' = "sent"
  /\ UNCHANGED <<pcfg, pmode, pplain, pret, cvars, svars, nvars, hvars, fvars,
                 evars>>

\* The receiver (keypair ServerKey(1), remote key ClientKey(1)) calls _recv.
PRecv ==
  /\ ppc = "sent"
  /\ pret' = RecvBytes(pcfg, pmode, ServerKey(1), ClientKey(1), penv)
  /\ ppc' = "done"
  /\ UNCHANGED <<pcfg, pmode, pplain, penv, cvars, svars, nvars, hvars, fvars,
                 evars>>

(* ------------------- executor.py over connections --------------------- *)
\* Text is a sequence of one-character strings.  The statements given to
\* the one Executor of a server, and the lines a client answers an input
\* request with.
ReadOne == "__import__('sys').stdin.read(1)"
EStatements ==
  {"1+1", "x = 1", "x", "print('a')", "print('a') or exit()", "input()",
   ReadOne}
ELines == {<<"a", "b">>, <<"z">>, <<>>}

\* RuntimeStdout.write.
write(buffer, data) == buffer \o data

\* RuntimeStdout.get: the data it returns and the buffer it leaves.
get(buffer) == [data |-> buffer, buffer |-> <<>>]

\* RuntimeStdin.put.
put(buffer, data) == buffer \o data

\* RuntimeStdin.read after its input request, if it made one.
read(buffer, n) == [data |-> Take(buffer, n), buffer |-> Drop(buffer, n)]

\* RuntimeStdin.readline after its input request, if it made one:
\* split('\n', 1).
readline(buffer) ==
  LET breaks == {i \in 1..Len(buffer) : buffer[i] = "\n"}
  IN IF breaks = {} THEN [data |-> buffer, buffer |-> <<>>]
     ELSE LET i == CHOOSE j \in breaks : \A k \in breaks : j <= k
          IN [data |-> SubSeq(buffer, 1, i - 1),
              buffer |-> SubSeq(buffer, i + 1, Len(buffer))]

\* What a statement writes to sys.stdout before anything else, and the
\* method of sys.stdin it then calls.
Prints(stmt) ==
  IF stmt \in {"print('a')", "print('a') or exit()"} THEN <<"a", "\n">>
  ELSE <<>>
Reads(stmt) ==
  IF stmt = "input()" THEN "readline"
  ELSE IF stmt = ReadOne THEN "read"
  ELSE "none"

\* RuntimeStdin.read / RuntimeStdin.readline: the condition under which
\* they call _requireInput.
Insufficient(stmt, buffer) ==
  \/ Reads(stmt) = "readline" /\ buffer = <<>>
  \/ Reads(stmt) = "read" /\ Len(buffer) < 1

\* ExecutionResult and the values it carries.
EValue(type, text) == [type |-> type, text |-> text]
ENone == EValue("NoneType", <<>>)
ExecutionResult(success, data, error, stdout) ==
  [kind |-> "result", success |-> success, data |-> data, error |-> error,
   stdout |-> stdout]

\* ShellServer.requireInput: the result it sends before it waits.
RequireInput(prompt) ==
  ExecutionResult(TRUE, EValue("RequireInput", <<>>), "", prompt)

\* Nothing sent; and the connection closed with nothing sent.
NothingSent ==
  [kind |-> "none", success |-> TRUE, data |-> ENone, error |-> "",
   stdout |-> <<>>]
ClosedUnanswered ==
  [kind |-> "closed", success |-> TRUE, data |-> ENone, error |-> "",
   stdout |-> <<>>]

\* Executor.execute returning a result: its stdout is RuntimeStdout.get().
Finish(scope, in, success, data, error, out) ==
  [scope |-> scope, stdin |-> in, stdout |-> get(out).buffer, exc |-> "",
   result |-> ExecutionResult(success, data, error, get(out).data)]

\* Executor.execute, eval and then exec, from the point where sys.stdin
\* holds what the statement reads: the executor's fields afterwards and the
\* result, or the exception that leaves execute.
Evaluate(stmt, scope, out, in) ==
  IF stmt = "1+1"
  THEN Finish(scope, in, TRUE, EValue("int", <<"2">>), "", out)
  ELSE IF stmt = "x = 1"
  THEN Finish(scope \cup {"x"}, in, TRUE, ENone, "", out)
  ELSE IF stmt = "x"
  THEN IF "x" \in scope
       THEN Finish(scope, in, TRUE, EValue("int", <<"1">>), "", out)
       ELSE Finish(scope, in, FALSE, ENone, "NameError", out)
  ELSE IF stmt = "print('a')"
  THEN Finish(scope, in, TRUE, ENone, "", out)
  ELSE IF stmt = "print('a') or exit()"
  THEN [scope |-> scope, stdin |-> in, stdout |-> out,
        exc |-> "SystemExit", result |-> NothingSent]
  ELSE IF stmt = "input()"
  THEN LET r == readline(in)
       IN IF r.data = <<>>
          THEN Finish(scope, r.buffer, FALSE, ENone, "EOFError", out)
          ELSE Finish(scope, r.buffer, TRUE, EValue("str", r.data), "", out)
  ELSE LET r == read(in, 1)
       IN Finish(scope, r.buffer, TRUE, EValue("str", r.data), "", out)

\* The first thing a client is sent when its first statement is stmt and
\* the executor's fields are scope, out and in.
Respond(stmt, scope, out, in) ==
  LET o == write(out, Prints(stmt))
  IN IF Insufficient(stmt, in) THEN RequireInput(get(o).data)
     ELSE LET e == Evaluate(stmt, scope, o, in)
          IN IF e.exc # "" THEN ClosedUnanswered ELSE e.result

NoObservation == [stmt |-> "", msg |-> NothingSent]
Observe(stmt, msg) ==
  IF eobs = NoObservation THEN [stmt |-> stmt, msg |-> msg] ELSE eobs

\* ShellServer.serve, one iteration up to _main's first _recv (the
\* handshake taken as done): the Executor made in ShellServer.__init__ is
\* the one every connection uses, and serve assigns none of its fields.
EAccept ==
  /\ epc = "accept"
  /\ econn < MaxConns
  /\ econn' = econn + 1
  /\ epc' = "recv"
  /\ estmt' = ""
  /\ eobs' = NoObservation
  /\ UNCHANGED <<escope, estdout, estdin, cvars, svars, nvars, hvars, fvars,
                 pvars>>

\* ShellServer._main after Executor.execute has ended with e: the result is
\* sent, or SystemExit closes the connection.
Settle(stmt, e) ==
  /\ escope' = e.scope
  /\ estdin' = e.stdin
  /\ estdout' = e.stdout
  /\ estmt' = ""
  /\ IF e.exc # ""
     THEN epc' = "accept" /\ eobs' = Observe(stmt, ClosedUnanswered)
     ELSE epc' = "recv" /\ eobs' = Observe(stmt, e.result)
  /\ UNCHANGED <<econn, cvars, svars, nvars, hvars, fvars, pvars>>

\* ShellServer._main receives a statement and Executor.execute runs it, up
\* to the result or to the input request.
EExecute(stmt) ==
  /\ epc = "recv"
  /\ LET o == write(estdout, Prints(stmt))
     IN IF Insufficient(stmt, estdin)
        THEN /\ estdout' = get(o).buffer
             /\ epc' = "input"
             /\ estmt' = stmt
             /\ eobs' = Observe(stmt, RequireInput(get(o).data))
             /\ UNCHANGED <<escope, estdin, econn, cvars, svars, nvars,
                            hvars, fvars, pvars>>
        ELSE Settle(stmt, Evaluate(stmt, escope, o, estdin))

\* ShellServer.requireInput receives the line, RuntimeStdin._requireInput
\* puts it into the buffer and the statement runs on.
EInput(line) ==
  /\ epc = "input"
  /\ Settle(estmt, Evaluate(estmt, escope, estdout, put(estdin, line)))

\* The client closes while the server waits for a statement: _recv raises
\* ServerExit and _main closes the connection.
EDisconnect ==
  /\ epc = "recv"
  /\ epc' = "accept"
  /\ UNCHANGED <<escope, estdout, estdin, econn, estmt, eobs, cvars, svars,
                 nvars, hvars, fvars, pvars>>

\* The client closes while the server waits for a line: Executor.execute
\* catches the ServerExit and makes a failure result with
\* RuntimeStdout.get(); _send raises, or succeeds and the next _recv raises
\* ServerExit.
EInputClosed(sendOk) ==
  /\ epc = "input"
  /\ estdout' = get(estdout).buffer
  /\ estmt' = ""
  /\ epc' = IF sendOk THEN "accept" ELSE "crashed"
  /\ UNCHANGED <<escope, estdin, econn, eobs, cvars, svars, nvars, hvars,
                 fvars, pvars>>

(* -------------------------- specifications ---------------------------- *)
SessionInit ==
  /\ cn = 0 /\ cpc = "new" /\ cmode = PLAINTEXT /\ ckey = NoKey
  /\ cremote = NoKey /\ cexp = "stmt" /\ cres = NoResult /\ sockC = "none"
  /\ spc = "accept" /\ smode = PLAINTEXT /\ skey = ServerKey(1)
  /\ sremote = NoKey /\ handshaken = FALSE /\ aborted = FALSE /\ siter = 1
  /\ need = 0 /\ got = <<>> /\ serr = "" /\ sockS = "none"
  /\ c2s = <<>> /\ s2c = <<>> /\ nalt = 0
  /\ log = <<>>
  /\ sev = [op |-> "init", f |-> NoFrame, spc0 |-> "accept",
            mode0 |-> PLAINTEXT, hs0 |-> FALSE, remote0 |-> NoKey,
            key0 |-> ServerKey(1), out |-> <<>>,
            invoked |-> FALSE, exc |-> "", fault |-> "", text |-> "",
            spc1 |-> "accept", sock1 |-> "none", prev |-> "init"]
  /\ cev = ClientEvent("init", NoFrame, PLAINTEXT, "")
  /\ xch = [eq |-> FALSE, top |-> FALSE, alt |-> FALSE, clean |-> TRUE,
            text |-> ""]
  /\ sw = [c |-> "none", s |-> "none"]

FramingIdle ==
  /\ fpay = <<>> /\ fsent = FALSE /\ fall = FALSE /\ fwire = <<>> /\ fbuf = <<>>
  /\ feof = FALSE /\ fpc = "head" /\ flen = 0 /\ fret = <<>>

ProtectIdle ==
  /\ pcfg = DefaultKeySize /\ pmode = PLAINTEXT /\ pplain = <<>>
  /\ penv = <<>> /\ ppc = "new" /\ pret = NoReturn

ExecutorIdle ==
  /\ escope = {} /\ estdout = <<>> /\ estdin = <<>> /\ econn = 0
  /\ epc = "accept" /\ estmt = "" /\ eobs = NoObservation

Init == SessionInit /\ FramingIdle /\ ProtectIdle /\ ExecutorIdle

Next ==
  \/ CConnect
  \/ CConnectRecv
  \/ \E text \in Texts : CExecute(text)
  \/ \E pick \in AlteredResults : CExecuteRecv(pick)
  \/ CRecvClosed
  \/ CClose
  \/ SAccept
  \/ \E pick \in AlteredResults : SRecv(pick)
  \/ \E pick \in AlteredResults : SInput(pick)
  \/ SRecvClosed
  \/ \E sendOk \in BOOLEAN : SInputClosed(sendOk)
  \/ \E ch \in {"c2s", "s2c"}, i \in 1..(MaxAlter + 1) : Alter(ch, i)

Spec == Init /\ [][Next]_vars

FramingInit ==
  /\ SessionInit
  /\ ProtectIdle
  /\ ExecutorIdle
  /\ fpay \in Payloads
  /\ fsent = FALSE /\ fall = FALSE /\ fwire = <<>> /\ fbuf = <<>>
  /\ feof = FALSE /\ fpc = "head" /\ flen = 0 /\ fret = <<>>

FramingNext ==
  \/ \E k \in 1..(HeaderSize + MaxPayload) : FSend(k)
  \/ \E k \in 1..(HeaderSize + MaxPayload) : FDeliver(k)
  \/ FClose
  \/ FRecvHead
  \/ FRecvBody

SpecFraming == FramingInit /\ [][FramingNext]_vars

ProtectInit ==
  /\ SessionInit
  /\ FramingIdle
  /\ ExecutorIdle
  /\ pcfg \in KeySizes /\ pmode \in Modes /\ pplain \in Plains
  /\ penv = <<>> /\ ppc = "new" /\ pret = NoReturn

ProtectNext ==
  \/ PSend
  \/ PRecv

SpecProtect == ProtectInit /\ [][ProtectNext]_vars

ExecutorInit == SessionInit /\ FramingIdle /\ ProtectIdle /\ ExecutorIdle

ExecutorNext ==
  \/ EAccept
  \/ \E stmt \in EStatements : EExecute(stmt)
  \/ \E line \in ELines : EInput(line)
  \/ EDisconnect
  \/ \E sendOk \in BOOLEAN : EInputClosed(sendOk)

SpecExecutor == ExecutorInit /\ [][ExecutorNext]_vars

(* ------------------------------ claims -------------------------------- *)
\* Both sides have completed the handshake of the current connection.
BothHandshaken == handshaken /\ cpc \in {"ready", "executing"}

ClientKeyFrame == [dir |-> "c2s", env |-> PLAINTEXT, t |-> "key"]
ServerKeyFrame == [dir |-> "s2c", env |-> PLAINTEXT, t |-> "key"]

\* C1: once connect() and _handshake have both completed, each side holds
\* the other's exported public key as its remote key and, until a further
\* frame is sent, both are in SIGNED mode; the first two frames of the
\* connection are the client's public key and then the server's, both
\* unprotected (the server's reply leaves under the mode '' it had before
\* _handshake sets 'signature'), nothing else is sent before the handshake
\* is complete, and no later frame is unprotected.
C1_Handshake ==
  /\ Len(log) >= 1 => log[1] = ClientKeyFrame
  /\ Len(log) >= 2 => log[2] = ServerKeyFrame
  /\ \A i \in 3..Len(log) : log[i].env # PLAINTEXT
  /\ Len(log) >= 3 => cremote # NoKey /\ cmode # PLAINTEXT
  /\ cpc = "connecting" => Len(log) <= 2
  /\ sev.op = "handshake" =>
       /\ sev.mode0 = PLAINTEXT
       /\ sev.out = <<Protect(PLAINTEXT, skey, sremote, KeyBody(skey))>>
  /\ BothHandshaken =>
       /\ cremote = skey /\ sremote = ckey
       /\ cremote # NoKey /\ sremote # NoKey
       /\ Len(log) >= 2
       /\ Len(log) = 2 => cmode = SIGNED /\ smode = SIGNED

\* Both handshakes are complete and no statement was sent yet.
C1_Witness == BothHandshaken /\ cpc = "ready" /\ Len(log) = 2 /\ cn = 2

\* An execute() call has just returned an ExecutionResult to rshell.py.
ExecuteReturned == cev.op = "result" /\ cres.kind = "outcome"

\* C2: client and server change mode in lockstep.  On a channel where no
\* frame was altered, after every completed top-level execute() exchange
\* (whatever the statements, in any order and number) the client's mode
\* equals the server's mode; and a single unaltered top-level exchange
\* that begins with equal modes ends with equal modes.
C2_Lockstep ==
  ExecuteReturned =>
    /\ xch.clean => cmode = smode
    /\ xch.top /\ ~xch.alt /\ xch.eq => cmode = smode

\* A clean session has switched to ENCRYPTED and back to SIGNED.
C2_Witness ==
  /\ ExecuteReturned /\ xch.clean /\ xch.text \in SwitchToSigned
  /\ cev.mode0 = SIGNED /\ cev.f.env = SIGNED /\ sev.mode0 = ENCRYPTED

\* The mode a side is in after the handshake, given the last mode switch
\* command it processed.
ModeOf(switch) == IF switch = "enc" THEN ENCRYPTED ELSE SIGNED

\* C3: a mode change is never retroactive and is persistent.  The frame
\* that carries a switch command is protected, and unwrapped, under the
\* mode in force before the command; the reply to it and every later
\* frame of either side is protected under the mode the side's last
\* processed switch command names (ENCRYPTED after switch-to-encrypted
\* until a switch-to-signed command is processed, and conversely); and in
\* a session of unaltered top-level exchanges the receiver of every frame
\* applies the mode its sender applied.
C3_ModeSwitch ==
  /\ cpc \in {"ready", "executing"} => cmode = ModeOf(sw.c)
  /\ handshaken => smode = ModeOf(sw.s)
  /\ cev.op = "send" =>
       /\ cev.f.env = cev.mode0
       /\ xch.text \in SwitchToEncrypted => cmode = ENCRYPTED
       /\ xch.text \in SwitchToSigned => cmode = SIGNED
       /\ xch.text \notin SwitchToEncrypted \cup SwitchToSigned =>
            cev.f.env = ModeOf(sw.c)
  /\ cev.op = "result" => cev.mode0 = ModeOf(sw.c)
  /\ sev.op = "execute" /\ ~sev.f.alt => sev.f.env = sev.mode0
  /\ sev.op \in {"execute", "badsig", "input", "input-badsig"} /\ sev.exc = "" =>
       /\ sev.out # <<>>
       /\ \A i \in 1..Len(sev.out) : sev.out[i].env = ModeOf(sw.s)
  /\ sev.op = "execute" /\ sev.exc = "" /\ sev.text \in SwitchToEncrypted =>
       smode = ENCRYPTED /\ sev.out[1].env = ENCRYPTED
  /\ sev.op = "execute" /\ sev.exc = "" /\ sev.text \in SwitchToSigned =>
       smode = SIGNED /\ sev.out[1].env = SIGNED
  /\ xch.clean /\ cpc = "executing" /\ c2s # <<>> => Head(c2s).env = smode
  /\ xch.clean /\ cpc = "executing" /\ s2c # <<>> => Head(s2c).env = cmode
  /\ xch.clean /\ cev.op = "result" =>
       cev.f.env = cev.mode0 /\ sev.f.env = sev.mode0

\* The reply to a switch-to-encrypted command that was sent SIGNED has
\* arrived as an ENCRYPTED envelope, and a later statement was answered
\* under ENCRYPTED too.
C3_Witness ==
  /\ cev.op = "result" /\ xch.clean /\ xch.text = "1+1"
  /\ cev.f.env = ENCRYPTED /\ sev.f.env = ENCRYPTED /\ sw.c = "enc"
  /\ cres.kind = "outcome" /\ cres.o.success

\* The server's last step read, at the top level and in SIGNED mode, a
\* frame whose signature does not verify.
RejectedFrame ==
  /\ sev.spc0 = "recv" /\ sev.mode0 = SIGNED /\ sev.f # NoFrame
  /\ ~Verify(sev.remote0, sev.f)

\* C4: when the server, in SIGNED mode, reads a top-level frame whose
\* signature does not verify, it sends exactly one frame, the failure
\* result InvalidSignature, does not invoke the command processor, the
\* connection stays open with mode and handshake flag as they were, and
\* the server is back in _main's receive; the next frame, when its
\* signature verifies, is given to the command processor.
C4_InvalidSignature ==
  /\ RejectedFrame =>
       /\ sev.out = <<Protect(SIGNED, skey, sremote, Pack(InvalidSignatureOutcome))>>
       /\ ~sev.invoked
       /\ sev.exc = "" /\ sev.spc1 = "recv" /\ sev.sock1 = "open"
       /\ spc = "recv" /\ sockS = "open" /\ serr = ""
       /\ smode = sev.mode0 /\ handshaken = sev.hs0 /\ handshaken
  /\ sev.prev = "badsig" /\ sev.f # NoFrame /\ Verify(sev.remote0, sev.f)
       /\ sev.mode0 = SIGNED => sev.op = "execute" /\ sev.invoked

\* After a rejected frame, the next statement was executed and answered.
C4_Witness ==
  /\ sev.prev = "badsig" /\ sev.op = "execute" /\ sev.text = "1+1"
  /\ Len(sev.out) = 1 /\ sev.out[1].body.o.success

\* C5: every execute() call made after a completed handshake gives its
\* caller an ExecutionResult; an exception reaches the caller only when the
\* connection has died (ServerExit), in SIGNED and in ENCRYPTED mode,
\* whether or not the reply was altered.  (Stated for the replies that
\* the server protected under the mode the client reads them in.)
C5_AlwaysOutcome ==
  /\ cev.op = "raise" => cres.kind = "outcome"
  /\ cev.op = "result" /\ cev.mode0 \in {SIGNED, ENCRYPTED}
       /\ cev.f.env = cev.mode0 => cres.kind = "outcome"

\* C6: recv returns exactly the bytes given to send, however the stream
\* splits them into writes and reads, and never fewer bytes than the
\* header announces.  (Stated for the sends that wrote every byte: what is
\* left to chance is how the stream delivers them to the reads.)
C6_RoundTrip ==
  /\ fall /\ fpc \in {"done", "error", "exit"} => fpc = "done" /\ fret = fpay
  /\ fall /\ fpc = "done" => Len(fret) = flen

\* C7: when the peer has closed the stream and the server's top-level
\* receive reads no header, recv raises ServerExit, which ends the current
\* session only: the server sends nothing, closes the connection's socket,
\* is not aborted, and waits in accept with a new session; the next
\* connection is accepted.
C7_PeerClosed ==
  /\ sev.spc0 = "recv" /\ sev.f = NoFrame /\ sev.op # "accept" =>
       /\ sev.op = "closed" /\ sev.exc = "ServerExit"
       /\ sev.out = <<>> /\ ~sev.invoked
       /\ sev.sock1 = "closed" /\ sev.spc1 = "accept"
       /\ spc = "accept" /\ serr = "" /\ ~aborted
       /\ ~handshaken /\ smode = PLAINTEXT /\ sremote = NoKey
  /\ sev.op = "accept" /\ sev.prev = "closed" =>
       spc = "recv" /\ sockS = "open" /\ siter > 1

\* After a peer disconnect the server has accepted the next connection.
C7_Witness ==
  /\ sev.op = "accept" /\ sev.prev = "closed" /\ cn = 2
  /\ spc = "recv" /\ sockS = "open"

\* The server's last step executed the terminate command.
Terminated ==
  /\ sev.op = "execute" /\ StartsWithPrefix(sev.text)
  /\ Lower(Strip(DropPrefix(sev.text))) = "exit"

\* C8 as stated: the terminate command sends no result, closes the
\* connection's socket, and the server then accepts the next connection.
C8_TerminateAcceptsNext ==
  Terminated =>
    sev.out = <<>> /\ sev.sock1 = "closed" /\ sev.spc1 = "accept"

\* C8 as amended: the terminate command sends no result, closes the
\* connection's socket, and ends the whole server: serve returns (abort()
\* has set the aborted flag) and no further connection is accepted.
C8_TerminateStops ==
  /\ Terminated =>
       /\ sev.out = <<>> /\ sev.exc = "ServerExit"
       /\ sev.sock1 = "closed" /\ sev.spc1 = "stopped"
       /\ spc = "stopped" /\ sockS = "closed" /\ aborted /\ serr = ""
  /\ aborted <=> spc = "stopped"
  /\ sev.spc1 = "stopped" => Terminated /\ sev.text = "#:exit"

\* The terminate command was executed on the first connection and its
\* client found the connection closed.
C8_Witness ==
  /\ Terminated /\ spc = "stopped" /\ cn = 1
  /\ cpc = "closed" /\ cres = Raised("ServerExit")

IntegrityFaults == {"InvalidPadding", "ValueError"}

\* C9: an integrity fault (padding validation or key unwrap) while the
\* server receives a frame in ENCRYPTED mode ends that connection and only
\* it: the socket is closed and the server accepts the next connection.
C9_FaultEndsConnectionOnly ==
  sev.fault \in IntegrityFaults /\ sev.mode0 = ENCRYPTED =>
    sev.sock1 = "closed" /\ sev.spc1 = "accept"

\* C10: an InvalidPadding fault on an ENCRYPTED frame never becomes an
\* ExecutionResult: the server sends no failure result for the frame and
\* does not give its bytes to the command processor, and the client's
\* execute() does not return a failure result made up for it.
C10_PaddingNeverOutcome ==
  /\ sev.fault = "InvalidPadding" => sev.out = <<>> /\ ~sev.invoked
  /\ cev.fault = "InvalidPadding" => cres.kind = "raise"

\* The server's last step read, in the nested receive of an input request,
\* a frame that arrived as the client sent it, under the mode it was sent in.
LineReceived ==
  /\ sev.spc0 = "input" /\ sev.f # NoFrame
  /\ ~sev.f.alt /\ sev.f.env = sev.mode0 /\ sev.f.body.t = "text"

\* C11: nested input ordering.  Every line the client supplies in answer to
\* an input request is given to the running statement: the step that reads
\* it raises nothing and sends exactly one frame, the next InputRequested
\* result while the statement has requests left (the line being the last
\* one read), and the statement's final result, made of the lines read in
\* the order supplied, after the last request.
C11_InputOrdering ==
  LineReceived =>
    /\ sev.exc = "" /\ Len(sev.out) = 1
    /\ spc = "input" =>
         /\ sev.out[1].body.o = RequireInputOutcome
         /\ got # <<>> /\ got[Len(got)] = sev.f.body.s
    /\ spc # "input" =>
         /\ sev.out[1].body.o.success
         /\ Len(sev.out[1].body.o.data) >= 2
         /\ sev.out[1].body.o.data[Len(sev.out[1].body.o.data)] = sev.f.body.s

\* The server's last step read, in the nested receive of an input request
\* in SIGNED mode, a frame whose signature does not verify.
RejectedLine ==
  /\ sev.spc0 = "input" /\ sev.mode0 = SIGNED /\ sev.f # NoFrame
  /\ ~Verify(sev.remote0, sev.f)

C13_ProtectRoundTrip ==
  /\ ppc = "done" /\ pcfg = GeneratedKeySize =>
       pret = [st |-> "ok", data |-> pplain, err |-> ""]
  /\ unpad(pad(pplain)) = [st |-> "ok", data |-> pplain, err |-> ""]
  /\ Len(pad(pplain)) % BlockSize = 0 /\ Len(pad(pplain)) > Len(pplain)
  /\ verify(ClientKey(1), pplain, sign(ClientKey(1), pplain))

\* A payload of exactly one block, all of whose bytes look like padding,
\* came back from an ENCRYPTED envelope.
C13_Witness ==
  /\ ppc = "done" /\ pcfg = GeneratedKeySize /\ pmode = ENCRYPTED
  /\ pplain = Repeat(BlockSize, BlockSize) /\ pret.st = "ok"
  /\ pret.data = pplain

\* C17: for every configured RSA key size, the signature sign() produces
\* and the asymmetric ciphertext encrypt() produces are as long as the
\* prefix the receiver splits off the envelope (RSA_SIGNATURE_SIZE,
\* RSA_CIPHER_SIZE: the configured size / 8), and the correctly signed or
\* encrypted frame is accepted.
C17_PrefixLength ==
  /\ ppc \in {"sent", "done"} /\ pmode = SIGNED =>
       Len(sign(ClientKey(1), pplain)) = RSA_SIGNATURE_SIZE(pcfg)
  /\ ppc \in {"sent", "done"} /\ pmode = ENCRYPTED =>
       Len(OaepEncrypt(ServerKey(1), EphemeralKey)) = RSA_CIPHER_SIZE(pcfg)
  /\ ppc = "done" => pret.st = "ok" /\ pret.data = pplain

\* C14: key availability.  In every state, a side whose mode is SIGNED or
\* ENCRYPTED has its remote public key set, and MissingRemoteKey is never
\* raised on either side.
C14_KeyAvailable ==
  /\ cmode # PLAINTEXT => cremote # NoKey
  /\ smode # PLAINTEXT => sremote # NoKey
  /\ cres # Raised("MissingRemoteKey") /\ cev.fault # "MissingRemoteKey"
  /\ sev.exc # "MissingRemoteKey" /\ sev.fault # "MissingRemoteKey"
  /\ serr # "MissingRemoteKey"

\* Both sides are in ENCRYPTED mode on the second connection, each with
\* the other's key, and a frame encrypted for the client was read.
C14_Witness ==
  /\ cn = 2 /\ cmode = ENCRYPTED /\ smode = ENCRYPTED
  /\ cremote = skey /\ sremote = ckey
  /\ cev.op = "result" /\ cev.f.env = ENCRYPTED /\ cev.f.key = ckey

\* C15: every connection the server accepts starts from the same session
\* state whatever happened before: mode PLAINTEXT, handshake flag false, no
\* remote key, and a keypair generated for this session (not the one of the
\* session that ended); the first frame of a connection is unwrapped in
\* PLAINTEXT mode with no remote key.
C15_FreshSession ==
  /\ spc = "accept" \/ sev.op = "accept" =>
       /\ smode = PLAINTEXT /\ ~handshaken /\ sremote = NoKey
       /\ skey = ServerKey(siter)
  /\ sev.spc1 = "accept" /\ sev.op \notin {"init", "accept"} =>
       skey # sev.key0 /\ siter > 1
  /\ sev.f # NoFrame /\ ~sev.hs0 =>
       sev.mode0 = PLAINTEXT /\ sev.remote0 = NoKey

\* The second connection was accepted after a session that had switched to
\* ENCRYPTED.
C15_Witness ==
  /\ sev.op = "accept" /\ cn = 2 /\ sw.s = "enc" /\ siter = 2
  /\ smode = PLAINTEXT /\ sremote = NoKey

\* The statements that begin with the control prefix and name no
\* recognized command.
UnknownCommands ==
  {t \in Stmts : /\ StartsWithPrefix(t)
                 /\ Lower(Strip(DropPrefix(t))) \notin
                      {"mode.encrypt", "mode.signature", "mode", "help", "exit"}}

UnknownCommandOutcome == Outcome(TRUE, DataNone, "", "No metacommand named")

\* C16: an unknown control command yields a successful result whose text
\* says there is no such command; it raises nothing, leaves the mode of the
\* client and of the server as they were, and the connection stays open.
C16_UnknownCommand ==
  /\ sev.op = "execute" /\ sev.text \in UnknownCommands =>
       /\ sev.exc = ""
       /\ sev.out = <<SendOutcome(sev.mode0, UnknownCommandOutcome)>>
       /\ smode = sev.mode0 /\ spc = "recv"
       /\ sockS = "open" /\ sev.sock1 = "open"
  /\ cev.op = "send" /\ xch.text \in UnknownCommands =>
       cmode = cev.mode0 /\ sockC = "open"
  /\ cev.op = "result" /\ xch.text \in UnknownCommands /\ xch.clean =>
       cres = Returned(UnknownCommandOutcome) /\ cmode = smode /\ sockC = "open"

\* An unknown command was answered in ENCRYPTED mode.
C16_Witness ==
  /\ cev.op = "result" /\ xch.text = "#:nope" /\ xch.clean
  /\ cres = Returned(UnknownCommandOutcome) /\ cmode = ENCRYPTED

\* C18: a line supplied in answer to an input request is ordinary data:
\* sending it changes neither the client's mode nor the server's, and the
\* modes, equal before the nested round trip, are equal after it.
C18_LineIsData ==
  /\ cev.op = "send" /\ cexp = "line" => cmode = cev.mode0
  /\ sev.spc0 = "input" /\ sev.exc = "" => smode = sev.mode0
  /\ cev.op = "send" /\ cexp = "line" /\ xch.eq => cmode = smode

\* C19: the channel is resilient to a single tampered frame whatever it
\* carried: after the server rejects an altered SIGNED frame at the top
\* level, the modes of client and server are equal and the client's
\* execute() returns a result.
C19_Resilient ==
  /\ RejectedFrame /\ sev.f.alt /\ sev.f.env = SIGNED => cmode = smode
  /\ sev.op = "badsig" /\ sev.f.alt /\ sev.f.env = SIGNED
       /\ cev.op = "result" => cres.kind = "outcome"

\* C20: strict alternation.  While the connection stays open, the server
\* sends exactly one frame for each frame it reads: a top-level statement,
\* a line read by a nested input request, a frame rejected for its
\* signature.
C20_OneFrameEach ==
  sev.f # NoFrame /\ sev.exc = "" => Len(sev.out) = 1

\* The frame the server's last step read was unwrapped without fault under
\* the mode the step began in: in SIGNED mode its signature verified, in
\* ENCRYPTED mode it was a ciphertext for the server's key and decryption
\* raised nothing.
UnwrappedFrame ==
  /\ sev.f # NoFrame /\ sev.fault = ""
  /\ sev.mode0 = SIGNED => Verify(sev.remote0, sev.f)
  /\ sev.mode0 = ENCRYPTED => sev.f.env = ENCRYPTED /\ sev.f.key = sev.key0

\* C21: the handshake is performed exactly once per session and before any
\* command processing.  The first frame read on a connection is taken as
\* the peer's key, in PLAINTEXT mode, and does not reach the command
\* processor; no later frame is taken as a key, the handshake flag staying
\* set until the session ends; and the command processor is invoked only
\* after the handshake, at the top level, with the bytes of a frame that
\* was unwrapped without fault under the current mode.
C21_HandshakeOnce ==
  /\ sev.f # NoFrame /\ sev.prev = "accept" =>
       sev.op = "handshake" /\ ~sev.invoked /\ ~sev.hs0
  /\ sev.op = "handshake" =>
       /\ sev.prev = "accept" /\ ~sev.hs0 /\ ~sev.invoked
       /\ sev.mode0 = PLAINTEXT
       /\ sev.exc = "" => handshaken /\ sremote = sev.f.body.k
  /\ sev.f # NoFrame /\ sev.hs0 => sev.op # "handshake"
  /\ sev.hs0 /\ sev.spc1 \in {"recv", "input"} => handshaken
  /\ sev.invoked =>
       /\ sev.op = "execute" /\ sev.hs0 /\ sev.spc0 = "recv"
       /\ UnwrappedFrame
       /\ ~sev.f.alt => sev.f.body = TextBody(sev.text)

\* The second frame of a connection, a signed statement, was given to the
\* command processor.
C21_Witness ==
  /\ sev.invoked /\ sev.prev = "handshake" /\ sev.mode0 = SIGNED
  /\ sev.text = "1+1" /\ UnwrappedFrame /\ cn = 2

\* C22: a connection-closed condition raised in the nested receive of a
\* pending input request unwinds the per-connection loop like one raised
\* at the top level: no failure result is made of it, the server sends no
\* further frame, closes the connection and accepts the next one.
C22_NestedCloseUnwinds ==
  sev.op = "input-closed" =>
    /\ sev.out = <<>> /\ sev.exc = "ServerExit"
    /\ sev.sock1 = "closed" /\ sev.spc1 = "accept"

\* C23: nothing but read-only configuration passes from one connection to
\* the next: input text a connection's command left unread and output text
\* not sent when the connection ended never reach a command or the client
\* of a later connection, so the first thing the client of any connection
\* is sent is what a server that never had a connection before would send
\* for the same statement.
C23_NoCarryOver ==
  eobs # NoObservation => eobs.msg = Respond(eobs.stmt, {}, <<>>, <<>>)
====
